---- MODULE Spec2Model ----
(***************************************************************************)
(* Attendance core of src/server.js: QR sessions, POST /attendance/mark,   *)
(* POST /attendance/decrement and the daily cron sweep, as a state machine *)
(* over the MongoDB collections.  Every `await` of a handler is a point    *)
(* where other handlers may run, so a handler is a sequence of steps: a    *)
(* store operation together with the synchronous code around it.  A store  *)
(* operation may also reject; what happens then depends on whether the     *)
(* handler has a try/catch.                                                *)
(***************************************************************************)
EXTENDS Integers, Sequences, FiniteSets, TLC

\* ---------------------------------------------------------------- bounds
\* Cap on the number of mark and decrement requests the server receives.
MaxRequests == 2
\* Cap on the number of QrSession documents.
MaxSessions == 1

\* ------------------------------------------------------ program constants
\* 5 * 60 * 1000 ms, the lifetime given to a QR session.
SessionTTL == 5 * 60 * 1000
\* Milliseconds in a UTC day: toISOString() renders the UTC calendar day.
DayMs == 24 * 60 * 60 * 1000
\* Score deltas written by the handlers.
PresentScore == 1
AbsentScore == -3

\* ------------------------------------------------------------ input sets
Regs == {"r1", "r2"}
Rands == {"k3x9qa"}
MarkProcs == {"m1", "m2"}
DecProcs == {"d1"}
TeacherProcs == {"a1", "a2"}
RegisterProcs == {"g1", "g2"}

\* The clock starts SessionTTL + 1 ms before the first UTC midnight, so that a
\* session made at T0 expires in the last millisecond of the day.
T0 == DayMs - SessionTTL - 1
\* The instants at which something happens: T0 and the millisecond before, of
\* and after the expiry of a session made at T0 (the last is the next day).
Instants == {T0, T0 + SessionTTL - 1, T0 + SessionTTL, T0 + SessionTTL + 1}

\* Store contents that earlier registrations and POST /subjects leave behind
\* (regNumber is unique; two teachers may own a subject of the same name).
InitStudents == {<<[regNumber |-> "r1"]>>,
                 <<[regNumber |-> "r1"], [regNumber |-> "r2"]>>}
InitSubjects == {<<[name |-> "Math", teacherEmail |-> "t1@x"]>>,
                 <<[name |-> "Math", teacherEmail |-> "t1@x"],
                   [name |-> "Math", teacherEmail |-> "t2@x"]>>}

VARIABLES
  now,        \* the wall clock, ms since the epoch (Date.now())
  students,   \* Student collection, in natural (insertion) order
  subjects,   \* Subject collection, in natural order
  sessions,   \* QrSession collection
  att,        \* Attendance collection, in natural order; a document's _id is its index
  mark,       \* POST /attendance/mark handlers in flight: locals and position
  dec,        \* POST /attendance/decrement handlers in flight
  sweep,      \* the cron callback: locals and position
  out,        \* how the request that ended last ended: the response sent
  nreq,       \* number of requests received so far
  teachers,   \* Teacher collection, in natural order
  treq,       \* /login and teacher-only handlers in flight: locals and position
  rreq        \* /register and /student/register handlers in flight

vars == <<now, students, subjects, sessions, att, mark, dec, sweep, out, nreq,
          teachers, treq, rreq>>

\* ------------------------------------------------------------- helpers
\* new Date().toISOString().split('T')[0]: the UTC calendar day as
\* <<year, month, day>> (the string "YYYY-MM-DD" field by field).  The model's
\* clock stays within January 1970.
ISODate(t) == <<1970, 1, 1 + (t \div DayMs)>>

NoDate == <<0, 0, 0>>
NoQr == [subject |-> "", ts |-> 0, rand |-> ""]
BogusQr == [subject |-> "Math", ts |-> 0, rand |-> "zzzzzz"]
NoSession == [subject |-> "", qrId |-> NoQr, createdAt |-> 0, expiresAt |-> 0]
\* A handler's `record` local: the document's _id and the status it was read with.
NoRecord == [id |-> 0, status |-> ""]

SetMin(S) == CHOOSE i \in S : \A j \in S : i <= j

\* The documents of a collection a matching {regNumber, subject, date}.
MatchingIn(a, reg, subj, date) ==
  {i \in 1..Len(a) : /\ a[i].regNumber = reg
                     /\ a[i].subject = subj
                     /\ a[i].date = date}

Matching(reg, subj, date) == MatchingIn(att, reg, subj, date)

\* Attendance.findOne({regNumber, subject, date}): the first match in natural order.
FindOne(reg, subj, date) ==
  IF Matching(reg, subj, date) = {} THEN NoRecord
  ELSE LET i == SetMin(Matching(reg, subj, date))
       IN [id |-> i, status |-> att[i].status]

\* QrSession.findOne({qrId}); qrId is unique in the collection.
FindSession(qr) ==
  IF \E s \in sessions : s.qrId = qr
  THEN CHOOSE s \in sessions : s.qrId = qr
  ELSE NoSession

PresentDoc(reg, subj, date) ==
  [regNumber |-> reg, subject |-> subj, date |-> date,
   status |-> "present", scoreChange |-> PresentScore]

AbsentDoc(reg, subj, date) ==
  [regNumber |-> reg, subject |-> subj, date |-> date,
   status |-> "absent", scoreChange |-> AbsentScore]

\* Locals of a mark handler; `at` is the instant new Date() gave at line 212.
MarkIdle == [pc |-> "idle", regNumber |-> "", subject |-> "", at |-> 0,
             date |-> NoDate, record |-> NoRecord]
DecIdle == [pc |-> "idle", regNumber |-> "", subject |-> "", date |-> NoDate,
            record |-> NoRecord]
\* A response: the message and, for line 229, the key of the record sent along.
Response(msg, reg, subj, date) ==
  [message |-> msg, regNumber |-> reg, subject |-> subj, date |-> date]
Message(msg) == Response(msg, "", "", NoDate)
\* The request ended on a rejected await outside any try/catch: nothing was sent.
NoResponse == Message("(unhandled rejection)")
SweepIdle == [pc |-> "idle", students |-> <<>>, subjects |-> <<>>,
              today |-> NoDate, i |-> 0, j |-> 0]

\* ------------------------------------------------------ teacher identity
\* expiresIn '1d' of generateToken (line 82), in seconds.
TokenTTL == 24 * 60 * 60

\* generateToken(teacherId) at instant t: jwt.sign puts the id and iat, the
\* instant in whole seconds, into the payload and signs it.  The token string
\* is a function of these: two tokens signed for one teacher within the same
\* second are the same string.
GenerateToken(id, t) == [id |-> id, iat |-> t \div 1000, sig |-> "secretkey"]

\* No Authorization header (or not a Bearer one).
NoToken == [id |-> "", iat |-> 0, sig |-> ""]
\* A token signed with another key, and one signed with the server's key that
\* no login ever returned.
ForgedToken == [id |-> "T1", iat |-> 86000, sig |-> "otherkey"]
UnissuedToken == [id |-> "T1", iat |-> 86000, sig |-> "secretkey"]

\* jwt.verify(token, secret) at instant t does not throw: the signature is
\* the server's and exp = iat + 1d is still ahead.
Verify(token, t) ==
  /\ token.sig = "secretkey"
  /\ t \div 1000 < token.iat + TokenTTL

\* bcrypt.hash and bcrypt.compare.
Hash(password) == <<"bcrypt", password>>
Compare(password, hashed) == hashed = Hash(password)

\* The `lowercase: true` setter of teacherSchema.email, on the addresses the
\* model uses.
Lower(email) == IF email = "T1@X" THEN "t1@x" ELSE email

\* The elements of a sequence.
Range(q) == {q[i] : i \in 1..Len(q)}

\* tokens.filter(t => t !== token)
RECURSIVE Filter(_, _)
Filter(tokens, token) ==
  IF tokens = <<>> THEN <<>>
  ELSE IF Head(tokens) = token THEN Filter(Tail(tokens), token)
  ELSE <<Head(tokens)>> \o Filter(Tail(tokens), token)

\* The positions of the Teacher documents with a given email / _id.
TeachersByEmail(email) == {i \in 1..Len(teachers) : teachers[i].email = email}
TeachersById(id) == {i \in 1..Len(teachers) : teachers[i].id = id}

\* A teacher who registered at the epoch and logged in once since: the
\* registration token runs out at the first midnight.  __v counts the array
\* updates saved so far.
Teacher1 ==
  [id |-> "T1", email |-> "t1@x", password |-> Hash("pw"),
   tokens |-> <<GenerateToken("T1", 0), GenerateToken("T1", 1000)>>, v |-> 1]

\* Locals of a /login or teacher-only handler: the route, the token presented
\* (or, for /login, generated), the position of the Teacher document loaded,
\* the __v and the tokens array it was loaded with (after line 147, for
\* /logout), the body's name, and the QrSession document to create.
TeacherIdle == [pc |-> "idle", token |-> NoToken, doc |-> 0, v |-> 0,
                tokens |-> <<>>, name |-> "", session |-> NoSession]
\* Locals of a registration handler: the document to create.
RegisterIdle == [pc |-> "idle", regNumber |-> "", email |-> "", id |-> "",
                 password |-> <<>>, token |-> NoToken]

\* Rejected awaits outside any try/catch, by what rejected.
VersionCrash == Message("(unhandled rejection: VersionError)")
DuplicateCrash == Message("(unhandled rejection: E11000 duplicate key)")

\* ---------------------------------------------------------------- Init
\* The server has started; students and subjects were registered earlier.
InitWith(studs, subjs) ==
  /\ now = T0
  /\ students = studs
  /\ subjects = subjs
  /\ sessions = {}
  /\ att = <<>>
  /\ mark = [p \in MarkProcs |-> MarkIdle]
  /\ dec = [p \in DecProcs |-> DecIdle]
  /\ sweep = SweepIdle
  /\ out = Message("")
  /\ nreq = 0
  /\ treq = [p \in TeacherProcs |-> TeacherIdle]
  /\ rreq = [p \in RegisterProcs |-> RegisterIdle]

Init ==
  /\ InitWith(<<[regNumber |-> "r1"], [regNumber |-> "r2"]>>,
              <<[name |-> "Math", teacherEmail |-> "t1@x"]>>)
  /\ teachers = <<Teacher1>>

InitSeq ==
  /\ \E studs \in InitStudents, subjs \in InitSubjects : InitWith(studs, subjs)
  /\ teachers = <<Teacher1>>

\* --------------------------------------------------------------- clock
Tick ==
  /\ \E t \in Instants : t > now /\ now' = t
  /\ UNCHANGED <<students, subjects, sessions, att, mark, dec, sweep, out, nreq, teachers, treq, rreq>>

\* ------------------------------------------- POST /attendance/session
\* The body of the handler once `authenticate` has let the request through:
\* qrId and expiresAt are computed from one reading of the clock and the
\* document is created.  A qrId already in the collection is refused by the
\* unique index (no document is written).
AttendanceSession(subject, rand) ==
  LET qrId == [subject |-> subject, ts |-> now, rand |-> rand]
      expiresAt == now + SessionTTL
  IN /\ Cardinality(sessions) < MaxSessions
     /\ \A s \in sessions : s.qrId # qrId
     /\ sessions' = sessions \cup
          {[subject |-> subject, qrId |-> qrId, createdAt |-> now,
            expiresAt |-> expiresAt]}
     /\ UNCHANGED <<now, students, subjects, att, mark, dec, sweep, out, nreq, teachers, treq, rreq>>

\* ---------------------------------------------- POST /attendance/mark
\* res.json({ message }) ends the handler.
MarkRespond(p, msg) ==
  /\ mark' = [mark EXCEPT ![p] = MarkIdle]
  /\ out' = Message(msg)

\* Line 229, res.json({ message, record }): the response carries the saved record.
MarkRespondRecord(p, msg) ==
  /\ mark' = [mark EXCEPT ![p] = MarkIdle]
  /\ out' = Response(msg, mark[p].regNumber, mark[p].subject, mark[p].date)

\* The comparison of line 212 written with >= (the boundary instant rejected).
ExpiredGe(t, session) == t >= session.expiresAt

\* The comparison of line 212.
Expired(t, session) == t > session.expiresAt

\* Lines 211-213: the response that ends the request at validation, "" when
\* the QR passes.
Validate(t, session) ==
  IF session = NoSession THEN "Invalid QR"
  ELSE IF Expired(t, session) THEN "QR expired"
  ELSE ""

\* Lines 211-213 without their `return`: the failure is answered and the
\* handler goes on to the record lookup.
MarkRequestNoReturn(p, reg, subj, qr) ==
  /\ mark[p].pc = "idle"
  /\ nreq < MaxRequests
  /\ nreq' = nreq + 1
  /\ IF reg = "" \/ subj = "" \/ qr = NoQr
     THEN MarkRespond(p, "Missing data")
     ELSE /\ mark' = [mark EXCEPT ![p] =
                [MarkIdle EXCEPT !.pc = "find", !.regNumber = reg,
                                 !.subject = subj, !.at = now,
                                 !.date = ISODate(now)]]
          /\ out' = IF Validate(now, FindSession(qr)) # ""
                    THEN Message(Validate(now, FindSession(qr)))
                    ELSE out
  /\ UNCHANGED <<now, students, subjects, sessions, att, dec, sweep, teachers, treq, rreq>>

\* Lines 206-215: the body is checked, QrSession.findOne({ qrId }) runs in the
\* store (or throws), the session is validated against the clock and the day
\* is computed.  Sessions are never deleted or changed and the code between
\* the request's arrival and line 215 reads nothing else, so the lookup and
\* the clock reading are taken at one instant: a run that reads the session
\* earlier has the same responses and the same store effects.
MarkRequest(p, reg, subj, qr) ==
  /\ mark[p].pc = "idle"
  /\ nreq < MaxRequests
  /\ nreq' = nreq + 1
  /\ IF reg = "" \/ subj = "" \/ qr = NoQr
     THEN MarkRespond(p, "Missing data")
     ELSE \/ IF Validate(now, FindSession(qr)) # ""
             THEN MarkRespond(p, Validate(now, FindSession(qr)))
             ELSE /\ mark' = [mark EXCEPT ![p] =
                       [MarkIdle EXCEPT !.pc = "find", !.regNumber = reg,
                                        !.subject = subj, !.at = now, !.date = ISODate(now)]]
                  /\ out' = out
          \/ MarkRespond(p, "Server error")
  /\ UNCHANGED <<now, students, subjects, sessions, att, dec, sweep, teachers, treq, rreq>>

\* Line 216: Attendance.findOne({ regNumber, subject, date }) runs in the store.
MarkFindRecord(p) ==
  /\ mark[p].pc = "find"
  /\ \/ /\ mark' = [mark EXCEPT ![p].pc = "save",
                      ![p].record = FindOne(mark[p].regNumber, mark[p].subject,
                                            mark[p].date)]
        /\ out' = out
     \/ MarkRespond(p, "Server error")
  /\ UNCHANGED <<now, students, subjects, sessions, att, dec, sweep, nreq, teachers, treq, rreq>>

\* Lines 218-229 without the check of lines 218-219: a present record is
\* saved again and answered as a new mark.
MarkSaveNoCheck(p) ==
  LET m == mark[p] IN
  /\ m.pc = "save"
  /\ IF m.record.id = 0
     THEN att' = Append(att, PresentDoc(m.regNumber, m.subject, m.date))
     ELSE att' = [att EXCEPT ![m.record.id].status = "present",
                             ![m.record.id].scoreChange = PresentScore]
  /\ MarkRespondRecord(p, "Attendance marked (+1)")
  /\ UNCHANGED <<now, students, subjects, sessions, dec, sweep, nreq, teachers, treq, rreq>>

\* Lines 224-225 with `record.scoreChange += 1`: the penalty and the mark add up.
MarkSaveSum(p) ==
  LET m == mark[p] IN
  /\ m.pc = "save"
  /\ IF m.record.id # 0 /\ m.record.status = "present"
     THEN /\ MarkRespond(p, "Already marked present today")
          /\ att' = att
     ELSE /\ IF m.record.id = 0
             THEN att' = Append(att, PresentDoc(m.regNumber, m.subject, m.date))
             ELSE att' = [att EXCEPT ![m.record.id].status = "present",
                            ![m.record.id].scoreChange =
                               att[m.record.id].scoreChange + PresentScore]
          /\ MarkRespondRecord(p, "Attendance marked (+1)")
  /\ UNCHANGED <<now, students, subjects, sessions, dec, sweep, nreq, teachers, treq, rreq>>

\* Lines 218-229 without line 225: an absent record is turned present and
\* keeps its penalty.
MarkSaveStatusOnly(p) ==
  LET m == mark[p] IN
  /\ m.pc = "save"
  /\ IF m.record.id # 0 /\ m.record.status = "present"
     THEN /\ MarkRespond(p, "Already marked present today")
          /\ att' = att
     ELSE /\ IF m.record.id = 0
             THEN att' = Append(att, PresentDoc(m.regNumber, m.subject, m.date))
             ELSE att' = [att EXCEPT ![m.record.id].status = "present"]
          /\ MarkRespondRecord(p, "Attendance marked (+1)")
  /\ UNCHANGED <<now, students, subjects, sessions, dec, sweep, nreq, teachers, treq, rreq>>

\* Lines 218-229: the decision on the record read, and record.save(): an
\* insert for a new document, an update of status and scoreChange by _id for
\* a document that was read.
MarkSave(p) ==
  LET m == mark[p] IN
  /\ m.pc = "save"
  /\ IF m.record.id # 0 /\ m.record.status = "present"
     THEN /\ MarkRespond(p, "Already marked present today")
          /\ att' = att
     ELSE \/ /\ IF m.record.id = 0
                THEN att' = Append(att, PresentDoc(m.regNumber, m.subject, m.date))
                ELSE att' = [att EXCEPT ![m.record.id].status = "present",
                                        ![m.record.id].scoreChange = PresentScore]
             /\ MarkRespondRecord(p, "Attendance marked (+1)")
          \/ /\ MarkRespond(p, "Server error")
             /\ att' = att
  /\ UNCHANGED <<now, students, subjects, sessions, dec, sweep, nreq, teachers, treq, rreq>>

\* ----------------------------------------- POST /attendance/decrement
DecRespond(p, msg) ==
  /\ dec' = [dec EXCEPT ![p] = DecIdle]
  /\ out' = Message(msg)

\* An await that rejects outside any try/catch: the request gets no response.
DecCrash(p) ==
  /\ dec' = [dec EXCEPT ![p] = DecIdle]
  /\ out' = NoResponse

\* Lines 244-245: the body is read, the day computed, the lookup issued.
DecRequest(p, reg, subj) ==
  /\ dec[p].pc = "idle"
  /\ nreq < MaxRequests
  /\ nreq' = nreq + 1
  /\ dec' = [dec EXCEPT ![p] =
       [DecIdle EXCEPT !.pc = "find", !.regNumber = reg, !.subject = subj,
                       !.date = ISODate(now)]]
  /\ out' = out
  /\ UNCHANGED <<now, students, subjects, sessions, att, mark, sweep, teachers, treq, rreq>>

\* Line 246: the lookup runs in the store.  The handler has no try/catch: a
\* rejected await ends it without a response.
DecFind(p) ==
  /\ dec[p].pc = "find"
  /\ \/ /\ dec' = [dec EXCEPT ![p].pc = "write",
                     ![p].record = FindOne(dec[p].regNumber, dec[p].subject,
                                           dec[p].date)]
        /\ out' = out
     \/ DecCrash(p)
  /\ UNCHANGED <<now, students, subjects, sessions, att, mark, sweep, nreq, teachers, treq, rreq>>

\* Lines 247-249 without the `if (!record)`: every call writes a penalty.
DecWriteAlways(p) ==
  /\ dec[p].pc = "write"
  /\ att' = Append(att, AbsentDoc(dec[p].regNumber, dec[p].subject, dec[p].date))
  /\ DecRespond(p, "Absent recorded (-3)")
  /\ UNCHANGED <<now, students, subjects, sessions, mark, sweep, nreq, teachers, treq, rreq>>

\* Lines 247-254.
DecWrite(p) ==
  LET d == dec[p] IN
  /\ d.pc = "write"
  /\ IF d.record.id = 0
     THEN \/ /\ att' = Append(att, AbsentDoc(d.regNumber, d.subject, d.date))
             /\ DecRespond(p, "Absent recorded (-3)")
          \/ /\ att' = att
             /\ DecCrash(p)
     ELSE /\ att' = att
          /\ DecRespond(p, IF d.record.status = "absent"
                           THEN "Already absent today"
                           ELSE "Present - no penalty")
  /\ UNCHANGED <<now, students, subjects, sessions, mark, sweep, nreq, teachers, treq, rreq>>

\* ------------------------------------------------------- daily sweep
\* The outer loop stopping one student early.
SweepAdvanceSkip(s) ==
  IF s.j < Len(s.subjects) THEN [s EXCEPT !.pc = "find", !.j = s.j + 1]
  ELSE IF s.i < Len(s.students) - 1
  THEN [s EXCEPT !.pc = "find", !.i = s.i + 1, !.j = 1]
  ELSE [s EXCEPT !.pc = "complete"]

\* The position after the pair (i, j) of the nested for-of loops.
SweepAdvance(s) ==
  IF s.j < Len(s.subjects) THEN [s EXCEPT !.pc = "find", !.j = s.j + 1]
  ELSE IF s.i < Len(s.students) THEN [s EXCEPT !.pc = "find", !.i = s.i + 1, !.j = 1]
  ELSE [s EXCEPT !.pc = "complete"]

\* A rejected await is not caught inside the callback: the run ends there.
SweepAbort == sweep' = [sweep EXCEPT !.pc = "aborted"]

\* Line 262: Student.find().  The trigger fires once within the model's horizon.
SweepStudents ==
  /\ sweep.pc = "idle"
  /\ \/ sweep' = [sweep EXCEPT !.pc = "subjects", !.students = students]
     \/ SweepAbort
  /\ UNCHANGED <<now, students, subjects, sessions, att, mark, dec, out, nreq, teachers, treq, rreq>>

\* Line 263: Subject.find().
SweepSubjects ==
  /\ sweep.pc = "subjects"
  /\ \/ sweep' = [sweep EXCEPT !.pc = "today", !.subjects = subjects]
     \/ SweepAbort
  /\ UNCHANGED <<now, students, subjects, sessions, att, mark, dec, out, nreq, teachers, treq, rreq>>

\* Lines 264-267: today is computed once, then the loops are entered.
SweepToday ==
  /\ sweep.pc = "today"
  /\ sweep' = IF Len(sweep.students) = 0 \/ Len(sweep.subjects) = 0
              THEN [sweep EXCEPT !.pc = "complete", !.today = ISODate(now)]
              ELSE [sweep EXCEPT !.pc = "find", !.today = ISODate(now),
                                 !.i = 1, !.j = 1]
  /\ UNCHANGED <<now, students, subjects, sessions, att, mark, dec, out, nreq, teachers, treq, rreq>>

\* Lines 268-273: the lookup for the pair (i, j) runs in the store.
SweepFind ==
  /\ sweep.pc = "find"
  /\ \/ sweep' = IF FindOne(sweep.students[sweep.i].regNumber,
                            sweep.subjects[sweep.j].name, sweep.today) = NoRecord
                 THEN [sweep EXCEPT !.pc = "create"]
                 ELSE SweepAdvance(sweep)
     \/ SweepAbort
  /\ UNCHANGED <<now, students, subjects, sessions, att, mark, dec, out, nreq, teachers, treq, rreq>>

\* Lines 274-280 with a catch-up: the pair's absence of the day before is
\* written along with today's.
SweepCreateCatchUp ==
  /\ sweep.pc = "create"
  /\ att' = att \o
       <<AbsentDoc(sweep.students[sweep.i].regNumber, sweep.subjects[sweep.j].name,
                   <<sweep.today[1], sweep.today[2], sweep.today[3] - 1>>),
         AbsentDoc(sweep.students[sweep.i].regNumber, sweep.subjects[sweep.j].name,
                   sweep.today)>>
  /\ sweep' = SweepAdvance(sweep)
  /\ UNCHANGED <<now, students, subjects, sessions, mark, dec, out, nreq, teachers, treq, rreq>>

\* Lines 274-280: Attendance.create of the absence for the pair (i, j).
SweepCreate ==
  /\ sweep.pc = "create"
  /\ \/ /\ att' = Append(att, AbsentDoc(sweep.students[sweep.i].regNumber,
                                        sweep.subjects[sweep.j].name, sweep.today))
        /\ sweep' = SweepAdvance(sweep)
     \/ /\ att' = att
        /\ SweepAbort
  /\ UNCHANGED <<now, students, subjects, sessions, mark, dec, out, nreq, teachers, treq, rreq>>

\* ------------------------------------------- authenticate and /login
TeacherRespond(p, msg) ==
  /\ treq' = [treq EXCEPT ![p] = TeacherIdle]
  /\ out' = Message(msg)

\* An await that rejects in a handler without try/catch: no response is sent.
TeacherCrash(p, how) ==
  /\ treq' = [treq EXCEPT ![p] = TeacherIdle]
  /\ out' = how

\* Lines 87-102 without `!teacher.tokens.includes(token)`: any token the
\* server's key verifies passes.
AuthenticateNoIncludes(token, t) ==
  IF token = NoToken THEN "No token provided"
  ELSE IF ~Verify(token, t) THEN "Invalid or expired token"
  ELSE IF TeachersById(token.id) = {} THEN "Invalid token"
  ELSE ""

\* Lines 87-102 when Teacher.findById resolves: the 401 the middleware
\* answers with, "" when it calls next().
Authenticate(token, t) ==
  IF token = NoToken THEN "No token provided"
  ELSE IF ~Verify(token, t) THEN "Invalid or expired token"
  ELSE IF TeachersById(token.id) = {} THEN "Invalid token"
  ELSE IF token \notin Range(teachers[SetMin(TeachersById(token.id))].tokens)
  THEN "Invalid token"
  ELSE ""

\* Lines 94 and 101-102: Teacher.findById rejects and the catch answers.
AuthenticateThrows(p, token) ==
  /\ token # NoToken
  /\ Verify(token, now)
  /\ TeacherRespond(p, "Invalid or expired token")

\* The Teacher document findById gave to a request that passed.
Loaded(token) == SetMin(TeachersById(token.id))

\* Lines 132-138: Teacher.findOne({ email }) runs (the query is cast with the
\* schema's setters), the password is compared, the token is generated and
\* pushed on the loaded document.
LoginRequest(p, email, password) ==
  /\ treq[p].pc = "idle"
  /\ nreq < MaxRequests
  /\ nreq' = nreq + 1
  /\ \/ IF TeachersByEmail(Lower(email)) = {}
        THEN TeacherRespond(p, "Invalid email or password")
        ELSE LET i == SetMin(TeachersByEmail(Lower(email))) IN
             IF ~Compare(password, teachers[i].password)
             THEN TeacherRespond(p, "Invalid email or password")
             ELSE /\ treq' = [treq EXCEPT ![p] =
                       [TeacherIdle EXCEPT !.pc = "login", !.doc = i,
                          !.token = GenerateToken(teachers[i].id, now)]]
                  /\ out' = out
     \/ TeacherRespond(p, "Server error")
  /\ UNCHANGED <<now, students, subjects, sessions, att, mark, dec, sweep,
                 teachers, rreq>>

\* Lines 139-140: teacher.save() of a pushed element is a $push on the stored
\* array together with an increment of __v; it does not depend on the
\* version the document was loaded with.
LoginSave(p) ==
  LET r == treq[p] IN
  /\ r.pc = "login"
  /\ \/ /\ teachers' = [teachers EXCEPT ![r.doc].tokens = Append(@, r.token),
                                        ![r.doc].v = @ + 1]
        /\ TeacherRespond(p, "Login successful")
     \/ /\ teachers' = teachers
        /\ TeacherRespond(p, "Server error")
  /\ UNCHANGED <<now, students, subjects, sessions, att, mark, dec, sweep,
                 nreq, rreq>>

\* ------------------------------------------------------- POST /logout
\* authenticate, then line 147: the loaded array without the presented token
\* is assigned to the document.
LogoutRequest(p, token) ==
  /\ treq[p].pc = "idle"
  /\ nreq < MaxRequests
  /\ nreq' = nreq + 1
  /\ \/ IF Authenticate(token, now) # ""
        THEN TeacherRespond(p, Authenticate(token, now))
        ELSE /\ treq' = [treq EXCEPT ![p] =
                  [TeacherIdle EXCEPT !.pc = "logout", !.token = token,
                     !.doc = Loaded(token), !.v = teachers[Loaded(token)].v,
                     !.tokens = Filter(teachers[Loaded(token)].tokens, token)]]
             /\ out' = out
     \/ AuthenticateThrows(p, token)
  /\ UNCHANGED <<now, students, subjects, sessions, att, mark, dec, sweep,
                 teachers, rreq>>

\* Line 147 with `tokens = []`: every credential of the teacher is dropped.
LogoutSaveAll(p) ==
  LET r == treq[p] IN
  /\ r.pc = "logout"
  /\ teachers' = [teachers EXCEPT ![r.doc].tokens = <<>>, ![r.doc].v = @ + 1]
  /\ TeacherRespond(p, "Logout successful")
  /\ UNCHANGED <<now, students, subjects, sessions, att, mark, dec, sweep,
                 nreq, rreq>>

\* Line 148 on a schema with versionKey: false: the array is written
\* whatever happened to the document since it was loaded.
LogoutSaveUnversioned(p) ==
  LET r == treq[p] IN
  /\ r.pc = "logout"
  /\ teachers' = [teachers EXCEPT ![r.doc].tokens = r.tokens, ![r.doc].v = @ + 1]
  /\ TeacherRespond(p, "Logout successful")
  /\ UNCHANGED <<now, students, subjects, sessions, att, mark, dec, sweep,
                 nreq, rreq>>

\* Lines 148-149: teacher.save() of an assigned array is a $set of the whole
\* array conditioned on the __v the document was loaded with, and increments
\* __v; when the stored __v has moved on, no document matches and save()
\* rejects with a VersionError.  The handler has no try/catch.
LogoutSave(p) ==
  LET r == treq[p] IN
  /\ r.pc = "logout"
  /\ \/ /\ teachers[r.doc].v = r.v
        /\ teachers' = [teachers EXCEPT ![r.doc].tokens = r.tokens,
                                        ![r.doc].v = @ + 1]
        /\ TeacherRespond(p, "Logout successful")
     \/ /\ teachers[r.doc].v # r.v
        /\ teachers' = teachers
        /\ TeacherCrash(p, VersionCrash)
     \/ /\ teachers' = teachers
        /\ TeacherCrash(p, NoResponse)
  /\ UNCHANGED <<now, students, subjects, sessions, att, mark, dec, sweep,
                 nreq, rreq>>

\* ----------------------------------------------- GET and POST /subjects
\* authenticate, then line 153 issues the query.
SubjectsListRequest(p, token) ==
  /\ treq[p].pc = "idle"
  /\ nreq < MaxRequests
  /\ nreq' = nreq + 1
  /\ \/ IF Authenticate(token, now) # ""
        THEN TeacherRespond(p, Authenticate(token, now))
        ELSE /\ treq' = [treq EXCEPT ![p] =
                  [TeacherIdle EXCEPT !.pc = "list", !.token = token,
                                      !.doc = Loaded(token)]]
             /\ out' = out
     \/ AuthenticateThrows(p, token)
  /\ UNCHANGED <<now, students, subjects, sessions, att, mark, dec, sweep,
                 teachers, rreq>>

\* Lines 153-154: Subject.find runs and the list is sent.
SubjectsFind(p) ==
  /\ treq[p].pc = "list"
  /\ \/ TeacherRespond(p, "(subjects)")
     \/ TeacherCrash(p, NoResponse)
  /\ UNCHANGED <<now, students, subjects, sessions, att, mark, dec, sweep,
                 nreq, teachers, rreq>>

\* authenticate, then lines 158-160 up to the await.
SubjectsCreateRequest(p, token, name) ==
  /\ treq[p].pc = "idle"
  /\ nreq < MaxRequests
  /\ nreq' = nreq + 1
  /\ \/ IF Authenticate(token, now) # ""
        THEN TeacherRespond(p, Authenticate(token, now))
        ELSE IF name = ""
        THEN TeacherRespond(p, "Subject name required")
        ELSE /\ treq' = [treq EXCEPT ![p] =
                  [TeacherIdle EXCEPT !.pc = "subject", !.token = token,
                                      !.doc = Loaded(token), !.name = name]]
             /\ out' = out
     \/ AuthenticateThrows(p, token)
  /\ UNCHANGED <<now, students, subjects, sessions, att, mark, dec, sweep,
                 teachers, rreq>>

\* Lines 160-161: Subject.create runs in the store.
SubjectsCreate(p) ==
  LET r == treq[p] IN
  /\ r.pc = "subject"
  /\ \/ /\ subjects' = Append(subjects,
             [name |-> r.name, teacherEmail |-> teachers[r.doc].email])
        /\ TeacherRespond(p, "Subject added")
     \/ /\ subjects' = subjects
        /\ TeacherCrash(p, NoResponse)
  /\ UNCHANGED <<now, students, sessions, att, mark, dec, sweep, nreq,
                 teachers, rreq>>

\* ------------------------- POST /attendance/session behind authenticate
\* authenticate, then lines 195-199 up to the await: qrId and expiresAt are
\* computed from the clock.
SessionRequest(p, token, subject, rand) ==
  /\ treq[p].pc = "idle"
  /\ nreq < MaxRequests
  /\ nreq' = nreq + 1
  /\ \/ IF Authenticate(token, now) # ""
        THEN TeacherRespond(p, Authenticate(token, now))
        ELSE IF subject = ""
        THEN TeacherRespond(p, "Subject required")
        ELSE /\ treq' = [treq EXCEPT ![p] =
                  [TeacherIdle EXCEPT !.pc = "session", !.token = token,
                     !.doc = Loaded(token),
                     !.session =
                        [subject |-> subject,
                         qrId |-> [subject |-> subject, ts |-> now, rand |-> rand],
                         createdAt |-> now, expiresAt |-> now + SessionTTL]]]
             /\ out' = out
     \/ AuthenticateThrows(p, token)
  /\ UNCHANGED <<now, students, subjects, sessions, att, mark, dec, sweep,
                 teachers, rreq>>

\* Lines 199-200: QrSession.create runs; a qrId already stored is refused by
\* the unique index.
SessionCreate(p) ==
  LET r == treq[p] IN
  /\ r.pc = "session"
  /\ \/ /\ \A s \in sessions : s.qrId # r.session.qrId
        /\ sessions' = sessions \cup {r.session}
        /\ TeacherRespond(p, "QR session created")
     \/ /\ \E s \in sessions : s.qrId = r.session.qrId
        /\ sessions' = sessions
        /\ TeacherCrash(p, DuplicateCrash)
     \/ /\ sessions' = sessions
        /\ TeacherCrash(p, NoResponse)
  /\ UNCHANGED <<now, students, subjects, att, mark, dec, sweep, nreq,
                 teachers, rreq>>

\* ------------------------------------ POST /student/register, /register
RegisterRespond(p, msg) ==
  /\ rreq' = [rreq EXCEPT ![p] = RegisterIdle]
  /\ out' = Message(msg)

\* An await of /student/register rejects: the handler has no try/catch.
RegisterCrash(p, how) ==
  /\ rreq' = [rreq EXCEPT ![p] = RegisterIdle]
  /\ out' = how

StudentsByReg(regNumber) ==
  {i \in 1..Len(students) : students[i].regNumber = regNumber}

\* Lines 168-175: the body is checked, Student.findOne({ regNumber }) runs
\* and the password is hashed.
StudentRegisterRequest(p, regNumber, password) ==
  /\ rreq[p].pc = "idle"
  /\ nreq < MaxRequests
  /\ nreq' = nreq + 1
  /\ IF regNumber = "" \/ password = ""
     THEN RegisterRespond(p, "Missing registration number or password")
     ELSE \/ IF StudentsByReg(regNumber) # {}
             THEN RegisterRespond(p, "Student already exists")
             ELSE /\ rreq' = [rreq EXCEPT ![p] =
                       [RegisterIdle EXCEPT !.pc = "student",
                          !.regNumber = regNumber, !.password = Hash(password)]]
                  /\ out' = out
          \/ RegisterCrash(p, NoResponse)
  /\ UNCHANGED <<now, students, subjects, sessions, att, mark, dec, sweep,
                 teachers, treq>>

\* Lines 176-177 on a collection without the unique index on regNumber.
StudentCreateNoIndex(p) ==
  LET r == rreq[p] IN
  /\ r.pc = "student"
  /\ students' = Append(students,
         [regNumber |-> r.regNumber, password |-> r.password])
  /\ RegisterRespond(p, "Student registered successfully")
  /\ UNCHANGED <<now, subjects, sessions, att, mark, dec, sweep, nreq,
                 teachers, treq>>

\* Lines 176-177: Student.create runs in the store, whose unique index on
\* regNumber refuses a second document with the same value.
StudentCreate(p) ==
  LET r == rreq[p] IN
  /\ r.pc = "student"
  /\ \/ /\ StudentsByReg(r.regNumber) = {}
        /\ students' = Append(students,
               [regNumber |-> r.regNumber, password |-> r.password])
        /\ RegisterRespond(p, "Student registered successfully")
     \/ /\ StudentsByReg(r.regNumber) # {}
        /\ students' = students
        /\ RegisterCrash(p, DuplicateCrash)
     \/ /\ students' = students
        /\ RegisterCrash(p, NoResponse)
  /\ UNCHANGED <<now, subjects, sessions, att, mark, dec, sweep, nreq,
                 teachers, treq>>

\* Lines 111-121: the body is checked, Teacher.findOne({ email }) runs (the
\* query is cast with the schema's setters), the password is hashed, the
\* document is built with a fresh _id and its token is generated and pushed.
TeacherRegisterRequest(p, email, password) ==
  /\ rreq[p].pc = "idle"
  /\ nreq < MaxRequests
  /\ nreq' = nreq + 1
  /\ IF email = "" \/ password = ""
     THEN RegisterRespond(p, "Please provide email and password.")
     ELSE \/ IF TeachersByEmail(Lower(email)) # {}
             THEN RegisterRespond(p, "Email already in use.")
             ELSE /\ rreq' = [rreq EXCEPT ![p] =
                       [RegisterIdle EXCEPT !.pc = "teacher",
                          !.email = Lower(email), !.password = Hash(password),
                          !.id = "T" \o ToString(nreq + 1),
                          !.token = GenerateToken("T" \o ToString(nreq + 1), now)]]
                  /\ out' = out
          \/ RegisterRespond(p, "Server error")
  /\ UNCHANGED <<now, students, subjects, sessions, att, mark, dec, sweep,
                 teachers, treq>>

\* Lines 122-126: teacher.save() inserts the document; the unique index on
\* email refuses a second document with the same address, and the catch
\* answers 500.
TeacherSave(p) ==
  LET r == rreq[p] IN
  /\ r.pc = "teacher"
  /\ \/ /\ TeachersByEmail(r.email) = {}
        /\ teachers' = Append(teachers,
               [id |-> r.id, email |-> r.email, password |-> r.password,
                tokens |-> <<r.token>>, v |-> 0])
        /\ RegisterRespond(p, "Teacher registered")
     \/ /\ teachers' = teachers
        /\ RegisterRespond(p, "Server error")
  /\ UNCHANGED <<now, students, subjects, sessions, att, mark, dec, sweep,
                 nreq, treq>>

\* ------------------------------------------------------ specifications
\* Request bodies under Spec: one contended (regNumber, subject) and the
\* missing field; the sweep adds the other registered students' keys.
RaceRegs == {"r1", ""}
RaceSubjs == {"Math", ""}
QrInputs == {s.qrId : s \in sessions} \cup {BogusQr, NoQr}

\* Requests, sweep steps and the clock interleave freely.
Next ==
  \/ Tick
  \/ \E rand \in Rands : AttendanceSession("Math", rand)
  \/ \E p \in MarkProcs, reg \in RaceRegs, subj \in RaceSubjs, qr \in QrInputs :
        MarkRequest(p, reg, subj, qr)
  \/ \E p \in MarkProcs : MarkFindRecord(p)
  \/ \E p \in MarkProcs : MarkSave(p)
  \/ \E p \in DecProcs : DecRequest(p, "r1", "Math")
  \/ \E p \in DecProcs : DecFind(p)
  \/ \E p \in DecProcs : DecWrite(p)
  \/ SweepStudents
  \/ SweepSubjects
  \/ SweepToday
  \/ SweepFind
  \/ SweepCreate

Spec == Init /\ [][Next]_vars

\* No handler and no sweep run is in progress.
Quiet ==
  /\ \A p \in MarkProcs : mark[p].pc = "idle"
  /\ \A p \in DecProcs : dec[p].pc = "idle"
  /\ sweep.pc \in {"idle", "complete", "aborted"}

\* Requests and the sweep run one after the other: each starts only when
\* nothing else is in progress.  Any registered key may be asked for.
NextSeq ==
  \/ Tick
  \/ \E rand \in Rands : Quiet /\ AttendanceSession("Math", rand)
  \/ \E p \in MarkProcs, reg \in Regs \cup {""}, subj \in RaceSubjs,
        qr \in QrInputs : Quiet /\ MarkRequest(p, reg, subj, qr)
  \/ \E p \in MarkProcs : MarkFindRecord(p)
  \/ \E p \in MarkProcs : MarkSave(p)
  \/ \E p \in DecProcs, reg \in Regs :
        Quiet /\ DecRequest(p, reg, "Math")
  \/ \E p \in DecProcs : DecFind(p)
  \/ \E p \in DecProcs : DecWrite(p)
  \/ Quiet /\ SweepStudents
  \/ SweepSubjects
  \/ SweepToday
  \/ SweepFind
  \/ SweepCreate

SpecSeq == InitSeq /\ [][NextSeq]_vars

\* Authorization headers: every token a login returned and is or was in the
\* teacher's array, none, a forged one and one never issued.
TokenInputs ==
  UNION {Range(teachers[i].tokens) : i \in 1..Len(teachers)}
    \cup Range(Teacher1.tokens) \cup {NoToken, ForgedToken, UnissuedToken}

\* The teacher's requests: logins and the routes behind authenticate, freely
\* interleaved; the attendance handlers and the sweep are at rest.
NextAuth ==
  \/ Tick
  \/ \E p \in TeacherProcs, email \in {"t1@x", "t9@x"}, password \in {"pw", "no"} :
        LoginRequest(p, email, password)
  \/ \E p \in TeacherProcs : LoginSave(p)
  \/ \E p \in TeacherProcs, token \in TokenInputs : LogoutRequest(p, token)
  \/ \E p \in TeacherProcs : LogoutSave(p)
  \/ \E p \in TeacherProcs, token \in TokenInputs : SubjectsListRequest(p, token)
  \/ \E p \in TeacherProcs : SubjectsFind(p)
  \/ \E p \in TeacherProcs, token \in TokenInputs, name \in {"Math", ""} :
        SubjectsCreateRequest(p, token, name)
  \/ \E p \in TeacherProcs : SubjectsCreate(p)
  \/ \E p \in TeacherProcs, token \in TokenInputs, subject \in {"Math", ""},
        rand \in Rands : SessionRequest(p, token, subject, rand)
  \/ \E p \in TeacherProcs : SessionCreate(p)

SpecAuth == Init /\ [][NextAuth]_vars

\* Scans against the QR of one subject: sessions are made for "Math" only,
\* marks name "Math" or "Phys".
NextQr ==
  \/ Tick
  \/ \E rand \in Rands : AttendanceSession("Math", rand)
  \/ \E p \in MarkProcs, subj \in {"Math", "Phys"}, qr \in QrInputs :
        MarkRequest(p, "r1", subj, qr)
  \/ \E p \in MarkProcs : MarkFindRecord(p)
  \/ \E p \in MarkProcs : MarkSave(p)

SpecQr == Init /\ [][NextQr]_vars

\* A server just started on empty collections.
InitReg ==
  /\ InitWith(<<>>, <<>>)
  /\ teachers = <<>>

\* Registrations of students and teachers, freely interleaved.
NextReg ==
  \/ Tick
  \/ \E p \in RegisterProcs, regNumber \in Regs \cup {""}, password \in {"pw", ""} :
        StudentRegisterRequest(p, regNumber, password)
  \/ \E p \in RegisterProcs : StudentCreate(p)
  \/ \E p \in RegisterProcs, email \in {"t1@x", "T1@X", ""}, password \in {"pw", ""} :
        TeacherRegisterRequest(p, email, password)
  \/ \E p \in RegisterProcs : TeacherSave(p)

SpecReg == InitReg /\ [][NextReg]_vars

\* ============================================================== claims
Marked == "Attendance marked (+1)"
AlreadyMarked == "Already marked present today"
AlreadyAbsent == "Already absent today"
NoPenalty == "Present - no penalty"
AbsentRecorded == "Absent recorded (-3)"
ServerError == "Server error"

\* C1: in every reachable state there is at most one Attendance record per
\* (regNumber, subject, date), whatever the interleaving of mark, decrement
\* and sweep steps.
C1_OneRecordPerKey ==
  \A i, j \in 1..Len(att) :
    (/\ att[i].regNumber = att[j].regNumber
     /\ att[i].subject = att[j].subject
     /\ att[i].date = att[j].date) => i = j

\* C2: when a mark call has answered "Attendance marked (+1)" for a key and the
\* next call, run after it, is a mark for the same key with a QR that passes
\* validation, that call answers "Already marked present today", writes
\* nothing, and the key has exactly one record, present with scoreChange +1.
C2_SecondMarkAlreadyMarked ==
  [][\A p \in MarkProcs :
       (/\ out.message = Marked
        /\ mark[p].pc = "save"
        /\ mark'[p].pc = "idle"
        /\ out.regNumber = mark[p].regNumber
        /\ out.subject = mark[p].subject
        /\ out.date = mark[p].date)
       => /\ out'.message = AlreadyMarked
          /\ att' = att
          /\ \E i \in 1..Len(att) :
               /\ Matching(mark[p].regNumber, mark[p].subject, mark[p].date) = {i}
               /\ att[i].status = "present"
               /\ att[i].scoreChange = 1]_vars

\* Two marks were answered, the first with the record and the second with
\* "Already marked", and the store holds that one present record.
C2_Witness ==
  /\ out.message = AlreadyMarked
  /\ nreq = 2
  /\ Len(att) = 1
  /\ att[1].status = "present"
  /\ att[1].scoreChange = 1
  /\ sweep.pc = "idle"

\* C3: when the key of a mark that passed validation holds an absent/-3
\* record, the mark (unless the save fails) answers "Attendance marked (+1)"
\* and turns that same record into present with scoreChange exactly +1; no
\* record is added, so the key still has one record.
C3_AbsentUpgradedInPlace ==
  [][\A p \in MarkProcs :
       LET M == Matching(mark[p].regNumber, mark[p].subject, mark[p].date) IN
       (/\ mark[p].pc = "save"
        /\ mark'[p].pc = "idle"
        /\ M # {}
        /\ \A i \in M : att[i].status = "absent" /\ att[i].scoreChange = -3
        /\ out'.message # ServerError)
       => /\ out'.message = Marked
          /\ \E i \in M :
               /\ M = {i}
               /\ att' = [att EXCEPT ![i].status = "present",
                                     ![i].scoreChange = 1]]_vars

\* The sweep ran to its end and wrote the absences of r1 and r2 in that order;
\* the only request since is a mark, which left r2's record present.
C3_Witness ==
  /\ sweep.pc = "complete"
  /\ nreq = 1
  /\ out.message = Marked
  /\ Len(att) = 2
  /\ att[1] = AbsentDoc("r1", "Math", sweep.today)
  /\ att[2] = PresentDoc("r2", "Math", sweep.today)

\* C4: a record that is present is never changed again, and a decrement
\* whose lookup runs while its key holds a present record reads it as present,
\* answers "Present - no penalty" and writes nothing.
C4_PresentTerminal ==
  [][/\ \A i \in 1..Len(att) :
          att[i].status = "present" => (i <= Len(att') /\ att'[i] = att[i])
     /\ \A p \in DecProcs :
          (/\ dec[p].pc = "find"
           /\ dec'[p].pc = "write"
           /\ \E i \in Matching(dec[p].regNumber, dec[p].subject, dec[p].date) :
                att[i].status = "present")
          => dec'[p].record.status = "present"
     /\ \A p \in DecProcs :
          (/\ dec[p].pc = "write"
           /\ dec'[p].pc = "idle"
           /\ dec[p].record.status = "present")
          => (out'.message = NoPenalty /\ att' = att)]_vars

\* C5: a decrement for a key without a record creates exactly one record,
\* absent with scoreChange -3; a decrement for a key that holds such a record
\* answers "Already absent today" and leaves the store as it is, so calls run
\* one after the other never add a second penalty.
C5_DecrementIdempotent ==
  [][\A p \in DecProcs :
       LET M == Matching(dec[p].regNumber, dec[p].subject, dec[p].date) IN
       (dec[p].pc = "write" /\ dec'[p].pc = "idle" /\ out' # NoResponse)
       => /\ M = {} =>
               /\ out'.message = AbsentRecorded
               /\ att' = Append(att,
                     [regNumber |-> dec[p].regNumber, subject |-> dec[p].subject,
                      date |-> dec[p].date, status |-> "absent",
                      scoreChange |-> -3])
          /\ (M # {} /\ \A i \in M : att[i].status = "absent") =>
               /\ out'.message = AlreadyAbsent
               /\ att' = att
               /\ Cardinality(M) = 1
               /\ \A i \in M : att[i].scoreChange = -3]_vars

\* Two decrements and nothing else ran: the second was answered "Already
\* absent today" and the store holds the one absent/-3 record of the first.
C5_Witness ==
  /\ out.message = AlreadyAbsent
  /\ nreq = 2
  /\ sweep.pc = "idle"
  /\ Len(att) = 1
  /\ att[1].status = "absent"
  /\ att[1].scoreChange = -3

\* C6: a mark whose qrId matches no session, or whose session has expired,
\* ends at once with "Invalid QR", respectively "QR expired" (or with the 500
\* of a failed lookup), and the Attendance collection is unchanged.
C6_RejectedMarkWritesNothing ==
  [][\A p \in MarkProcs, reg \in RaceRegs \ {""}, qr \in QrInputs \ {NoQr} :
       (/\ nreq' # nreq /\ dec' = dec /\ mark[p].pc = "idle"
        /\ \/ FindSession(qr) = NoSession
           \/ now > FindSession(qr).expiresAt
        /\ MarkRequest(p, reg, "Math", qr))
       => /\ out'.message \in
               {IF FindSession(qr) = NoSession THEN "Invalid QR" ELSE "QR expired",
                ServerError}
          /\ mark'[p].pc = "idle"
          /\ att' = att]_vars

\* A decrement wrote today's absence of r1 and was answered; the request
\* after it, a mark with the expired QR, was refused and the record stayed.
C6_Witness ==
  /\ out.message = "QR expired"
  /\ nreq = 2
  /\ sweep.pc = "idle"
  /\ att = <<AbsentDoc("r1", "Math", ISODate(now))>>

\* C7: every session expires 5 minutes (300000 ms) after its creation, and a
\* mark validated at instant now is refused as expired exactly when
\* now > expiresAt: at expiresAt and before, it goes on to the record lookup.
C7_ExpiryBoundary ==
  /\ [](\A s \in sessions : s.expiresAt = s.createdAt + 300000)
  /\ [][\A p \in MarkProcs, reg \in RaceRegs \ {""}, qr \in QrInputs \ {NoQr} :
          (/\ nreq' # nreq /\ dec' = dec /\ mark[p].pc = "idle"
           /\ FindSession(qr) # NoSession
           /\ MarkRequest(p, reg, "Math", qr))
          => LET s == FindSession(qr) IN
             \/ out'.message = ServerError /\ mark'[p].pc = "idle"
             \/ /\ now > s.expiresAt
                /\ out'.message = "QR expired"
                /\ mark'[p].pc = "idle"
             \/ /\ now <= s.expiresAt
                /\ mark'[p].pc = "find"
                /\ mark'[p].at = now
                /\ out' = out]_vars

\* One mark passed validation at the very instant expiresAt and is still in
\* progress; another, validated 1 ms later, was refused as expired.
C7_Witness ==
  \E s \in sessions, p \in MarkProcs :
    /\ mark[p].pc # "idle"
    /\ mark[p].at = s.expiresAt
    /\ now = s.expiresAt + 1
    /\ out.message = "QR expired"

\* C8: a sweep step leaves the store unchanged or adds one absent/-3 record
\* for the pair it is at, which had no record; and when the sweep completes,
\* every pair of a registered student and an existing subject has exactly
\* one record for the sweep's day.
C8_SweepFillsAbsences ==
  [][sweep' # sweep =>
       /\ \/ att' = att
          \/ /\ sweep.pc = "create"
             /\ Matching(sweep.students[sweep.i].regNumber,
                         sweep.subjects[sweep.j].name, sweep.today) = {}
             /\ att' = Append(att,
                   [regNumber |-> sweep.students[sweep.i].regNumber,
                    subject |-> sweep.subjects[sweep.j].name,
                    date |-> sweep.today, status |-> "absent",
                    scoreChange |-> -3])
       /\ sweep'.pc = "complete" =>
            \A i \in 1..Len(students), j \in 1..Len(subjects) :
              Cardinality(MatchingIn(att', students[i].regNumber,
                                     subjects[j].name, sweep.today)) = 1]_vars

\* r2 was marked present, then the sweep ran to its end: r2's record is as it
\* was and r1, who had none, got one absent/-3 record.
C8_Witness ==
  /\ sweep.pc = "complete"
  /\ nreq = 1
  /\ att = <<PresentDoc("r2", "Math", sweep.today),
             AbsentDoc("r1", "Math", sweep.today)>>

\* C9: a sweep run never ends on a failed store operation of one pair while
\* later pairs of students x subjects are still to be processed.
C9_SweepContinuesAfterFailure ==
  (sweep.pc = "aborted" /\ sweep.i >= 1)
  => (sweep.i = Len(sweep.students) /\ sweep.j = Len(sweep.subjects))

\* C10: with the sweep running beside scan traffic (the only request so far
\* is a mark, answered "Attendance marked (+1)"), the marked key holds a
\* present/+1 record and no absent/-3 record.
C10_MarkedKeyHasNoAbsence ==
  (nreq = 1 /\ out.message = Marked)
  => LET M == Matching(out.regNumber, out.subject, out.date) IN
     /\ \E i \in M : att[i].status = "present" /\ att[i].scoreChange = 1
     /\ \A i \in M : att[i].status # "absent"

\* C11: a logout that completes removes the presented token and nothing
\* else: every other token of the teacher is still in the token set, and a
\* request presenting it (while its signature has not run out) still passes
\* authenticate.
C11_LogoutKeepsOtherTokens ==
  [][\A p \in TeacherProcs :
       (/\ treq[p].pc = "logout"
        /\ treq'[p].pc = "idle"
        /\ out'.message = "Logout successful")
       => /\ treq[p].token \notin Range(teachers'[treq[p].doc].tokens)
          /\ \A t2 \in Range(teachers[treq[p].doc].tokens) \ {treq[p].token} :
               /\ t2 \in Range(teachers'[treq[p].doc].tokens)
               /\ Verify(t2, now) => (Authenticate(t2, now))' = ""]_vars

\* The teacher held the registration token and a login token; a logout
\* presenting the first completed, and the request after it, a session
\* creation presenting the second, was let through and answered.
C11_Witness ==
  /\ nreq = 2
  /\ out.message = "QR session created"
  /\ teachers[1].tokens = <<GenerateToken("T1", 1000)>>
  /\ \E s \in sessions : s.createdAt = now

AuthErrors == {"No token provided", "Invalid token", "Invalid or expired token"}

\* C12: a request to a teacher-only route gets past authenticate only with a
\* token that is in the teacher's token set at that moment; presented with a
\* token that is not (never issued, or removed by a completed logout), it is
\* answered 401 and goes no further, the store untouched; and only a handler
\* that got past authenticate (or a login) changes the store.
C12_OnlyAssociatedTokenPasses ==
  [][/\ \A p \in TeacherProcs :
          (treq[p].pc = "idle" /\ treq'[p].pc \in {"logout", "list", "subject", "session"})
          => treq'[p].token \in Range(teachers[treq'[p].doc].tokens)
     /\ \A p \in TeacherProcs, token \in TokenInputs :
          (/\ nreq' # nreq /\ treq[p].pc = "idle"
           /\ \A i \in 1..Len(teachers) : token \notin Range(teachers[i].tokens)
           /\ \/ LogoutRequest(p, token)
              \/ SubjectsListRequest(p, token)
              \/ \E name \in {"Math", ""} : SubjectsCreateRequest(p, token, name)
              \/ \E subject \in {"Math", ""}, rand \in Rands :
                    SessionRequest(p, token, subject, rand))
          => /\ out'.message \in AuthErrors
             /\ treq'[p].pc = "idle"
             /\ <<teachers', subjects', sessions'>> = <<teachers, subjects, sessions>>
     /\ <<teachers', subjects', sessions'>> # <<teachers, subjects, sessions>>
          => \E p \in TeacherProcs :
               treq[p].pc \in {"login", "logout", "subject", "session"}]_vars

\* Two requests were received: a logout that completed, leaving the teacher
\* one token, and a request that was refused with "Invalid token".
C12_Witness ==
  /\ nreq = 2
  /\ out.message = "Invalid token"
  /\ Len(teachers[1].tokens) = 1
  /\ \A p \in TeacherProcs : treq[p].pc = "idle"

\* C13: no request ends on a store failure that nothing caught: whenever a
\* store operation of a handler rejects, the caller is sent an error response.
C13_EveryFailureAnswered ==
  out \notin {NoResponse, VersionCrash, DuplicateCrash}

\* C14: a successful login leaves its token in the teacher's token set, and
\* a token leaves the set only in the save of a logout that presented that
\* very token, whatever the interleaving of logins and logouts: a logout that
\* loaded the document before a login saved does not remove the login's token.
C14_TokenStaysUntilItsLogout ==
  [][/\ \A p \in TeacherProcs :
          (/\ treq[p].pc = "login"
           /\ treq'[p].pc = "idle"
           /\ out'.message = "Login successful")
          => treq[p].token \in Range(teachers'[treq[p].doc].tokens)
     /\ \A i \in 1..Len(teachers) : \A t \in Range(teachers[i].tokens) :
          t \notin Range(teachers'[i].tokens)
          => \E p \in TeacherProcs :
               /\ treq[p].pc = "logout"
               /\ treq[p].doc = i
               /\ treq[p].token = t
               /\ treq'[p].pc = "idle"]_vars

\* A logout loaded the document, a login saved its token, and the logout's
\* save was then refused: the login's token and both earlier ones are there.
C14_Witness ==
  /\ nreq = 2
  /\ out = VersionCrash
  /\ Len(teachers[1].tokens) = 3
  /\ teachers[1].tokens[3].iat = now \div 1000

\* C15: a present record exists for a subject only if the mark that wrote it
\* presented the QR of a session created for that subject: every present
\* record's subject is the subject of a session.
C15_PresentOnlyForQrSubject ==
  \A i \in 1..Len(att) :
    att[i].status = "present" => \E s \in sessions : s.subject = att[i].subject

\* C16: every Attendance record is present with scoreChange +1 or absent
\* with scoreChange -3, in every reachable state of mark, decrement and sweep
\* interleaved.
C16_StatusScorePairs ==
  \A i \in 1..Len(att) :
    \/ att[i].status = "present" /\ att[i].scoreChange = 1
    \/ att[i].status = "absent" /\ att[i].scoreChange = -3

\* Mark, decrement and sweep all wrote: the sweep ran to its end and two
\* requests were received, the last a mark answered with its record; r1's key
\* holds a present and an absent record, r2's the sweep's absence.
C16_Witness ==
  /\ sweep.pc = "complete"
  /\ nreq = 2
  /\ out.message = Marked
  /\ Len(att) = 3
  /\ \E i, j, k \in 1..3 :
       /\ att[i] = PresentDoc("r1", "Math", sweep.today)
       /\ att[j] = AbsentDoc("r1", "Math", sweep.today)
       /\ att[k] = AbsentDoc("r2", "Math", sweep.today)

\* C17: no step of a mark handler changes a QrSession, so a session accepted
\* once is accepted again while it has not expired; and no (regNumber,
\* subject, date) ever holds more than one present record.
C17_SessionNotConsumed ==
  /\ [][mark' # mark =>
          /\ sessions' = sessions
          /\ \A s \in sessions : (Validate(now, s))' = Validate(now, s)]_vars
  /\ [](\A i, j \in 1..Len(att) :
          (/\ att[i].status = "present" /\ att[j].status = "present"
           /\ att[i].regNumber = att[j].regNumber
           /\ att[i].subject = att[j].subject
           /\ att[i].date = att[j].date) => i = j)

\* C18: the sweep's day is computed once, from the clock at that moment, and
\* every record a sweep step creates carries it, one record per step; any
\* other absent record is written by a decrement and dated with the day that
\* request was received.
C18_NoCatchUp ==
  [][/\ now' >= now
     /\ sweep.today # NoDate => sweep'.today = sweep.today
     /\ (sweep.today = NoDate /\ sweep'.today # NoDate) => sweep'.today = ISODate(now)
     /\ (sweep' # sweep /\ att' # att) =>
          \E d \in {AbsentDoc(sweep.students[sweep.i].regNumber,
                              sweep.subjects[sweep.j].name, sweep.today)} :
            att' = Append(att, d)
     /\ \A p \in DecProcs :
          (dec[p].pc = "idle" /\ dec'[p].pc # "idle") => dec'[p].date = ISODate(now)
     /\ \A k \in 1..Len(att') :
          (k > Len(att) /\ att'[k].status = "absent" /\ sweep' = sweep)
          => \E p \in DecProcs :
               /\ dec[p].pc = "write"
               /\ dec'[p].pc = "idle"
               /\ att'[k].date = dec[p].date]_vars

\* A decrement on the first day recorded r1's absence; the trigger fired on
\* the second day only, and the completed sweep wrote that day's absences of
\* r1 and r2: r2 has no record for the first day.
C18_Witness ==
  /\ sweep.pc = "complete"
  /\ sweep.today = <<1970, 1, 2>>
  /\ att = <<AbsentDoc("r1", "Math", <<1970, 1, 1>>),
             AbsentDoc("r1", "Math", <<1970, 1, 2>>),
             AbsentDoc("r2", "Math", <<1970, 1, 2>>)>>

\* C19: no two Student documents share a regNumber and no two Teacher
\* documents an email, whatever the interleaving of registrations; and a
\* registration for a key that is already stored, whether it finds the key at
\* its lookup or only at its create, is not answered as a success and leaves
\* both collections as they are.
C19_UniqueIdentities ==
  /\ [](\A i, j \in 1..Len(students) :
          students[i].regNumber = students[j].regNumber => i = j)
  /\ [](\A i, j \in 1..Len(teachers) :
          teachers[i].email = teachers[j].email => i = j)
  /\ [][\A p \in RegisterProcs :
          /\ \A regNumber \in Regs :
               (/\ nreq' # nreq /\ rreq[p].pc = "idle"
                /\ StudentsByReg(regNumber) # {}
                /\ StudentRegisterRequest(p, regNumber, "pw"))
               => /\ out' \in {Message("Student already exists"), NoResponse}
                  /\ rreq'[p].pc = "idle"
          /\ \A email \in {"t1@x", "T1@X"} :
               (/\ nreq' # nreq /\ rreq[p].pc = "idle"
                /\ TeachersByEmail(Lower(email)) # {}
                /\ TeacherRegisterRequest(p, email, "pw"))
               => /\ out'.message \in {"Email already in use.", ServerError}
                  /\ rreq'[p].pc = "idle"
          /\ (/\ rreq[p].pc = "student" /\ rreq'[p].pc = "idle"
              /\ StudentsByReg(rreq[p].regNumber) # {})
             => /\ out' \in {DuplicateCrash, NoResponse}
                /\ students' = students
          /\ (/\ rreq[p].pc = "teacher" /\ rreq'[p].pc = "idle"
              /\ TeachersByEmail(rreq[p].email) # {})
             => /\ out'.message = ServerError
                /\ teachers' = teachers
          /\ (rreq[p].pc = "idle" /\ nreq' # nreq)
             => <<students', teachers'>> = <<students, teachers>>]_vars

\* Two registrations for one regNumber overlapped: both lookups found
\* nothing, one create stored the student and the other was refused by the
\* unique index.
C19_Witness ==
  /\ nreq = 2
  /\ out = DuplicateCrash
  /\ Len(students) = 1
  /\ teachers = <<>>

====
